---- MODULE Spec2Model ----
(***************************************************************************)
(* Conversation exchange flow of src/App.tsx (component App).              *)
(*                                                                         *)
(* React state (useState, lines 82-84) is modelled by messages, inputText  *)
(* and isLoading: the value each hook holds once the queued updates have   *)
(* been applied in order.  The values a handler reads are those captured   *)
(* by the last execution of the component function: handleSendMessage is   *)
(* a closure over that render's `messages` and `inputText`, and the send   *)
(* button's `disabled` prop is that render's `isLoading`.  They are kept   *)
(* in `rendered`; the component function runs again (Render) at a moment   *)
(* React's scheduler picks after a state update.                           *)
(***************************************************************************)
EXTENDS Integers, Sequences, FiniteSets

\* ---------------------------------------------------------------- bounds
MaxTurns == 2      \* accepted submissions in one session
MaxTime == 1       \* milliseconds the clock advances during the session

\* ------------------------------------------------------ strings and text
\* Text is a sequence of one-character (or one-token) strings.
Whitespace == {" "}

\* What the user puts into the TextInput: nothing, whitespace only, text with
\* whitespace around it and inside it.
Inputs == {<<>>, <<" ">>, <<" ", "a", " ", "b", " ">>}

RECURSIVE TrimStart(_)
TrimStart(s) ==
  IF s # <<>> /\ Head(s) \in Whitespace THEN TrimStart(Tail(s)) ELSE s

RECURSIVE TrimEnd(_)
TrimEnd(s) ==
  IF s # <<>> /\ s[Len(s)] \in Whitespace THEN TrimEnd(SubSeq(s, 1, Len(s) - 1)) ELSE s

\* The input used as typed, never trimmed.
TrimNothing(s) == s

\* String.prototype.trim
Trim(s) == TrimEnd(TrimStart(s))

Digit(d) ==
  CASE d = 0 -> "0" [] d = 1 -> "1" [] d = 2 -> "2" [] d = 3 -> "3" [] d = 4 -> "4"
    [] d = 5 -> "5" [] d = 6 -> "6" [] d = 7 -> "7" [] d = 8 -> "8" [] d = 9 -> "9"

\* Number.prototype.toString (radix 10, non-negative integers)
RECURSIVE ToString(_)
ToString(n) ==
  IF n < 10 THEN <<Digit(n)>> ELSE Append(ToString(n \div 10), Digit(n % 10))

\* [...a].reverse()
Reverse(s) == [i \in 1..Len(s) |-> s[Len(s) + 1 - i]]

\* ------------------------------------------------------------- messages
\* interface Message { id: string; text: string; sender: 'user' | 'bot' }
UserMessage(t, trimmedText) ==
  [id |-> ToString(t), text |-> trimmedText, sender |-> "user"]

\* `Erro do Servidor: ${response.status} - ${errorData}`
ServerErrorMessage(status, errorData) ==
  <<"Erro do Servidor: ">> \o ToString(status) \o <<" - ">> \o errorData

BotResponse(t, answer) ==
  [id |-> ToString(t + 1), text |-> answer, sender |-> "bot"]

ErrorResponse(t, message) ==
  [id |-> ToString(t + 1), text |-> <<"Falha na comunicação: ">> \o message, sender |-> "bot"]

\* The updater prev => [m, ...prev], appended to the wrong end.
PrependAtEnd(m, prev) == prev \o <<m>>

\* The updater prev => [m, ...prev] of setMessages
Prepend(m, prev) == <<m>> \o prev

\* ------------------------------------------------------------- promises
\* How an awaited promise settles: fulfilled with a value, or rejected with an
\* error whose message is the value.
Fulfilled(status, value) == [state |-> "fulfilled", status |-> status, value |-> value]
Rejected(message) == [state |-> "rejected", status |-> 0, value |-> message]

\* await fetch(...): a response with a status, or a transport failure.
FetchOutcomes ==
  {Fulfilled(200, <<>>), Fulfilled(500, <<>>), Rejected(<<"Network request failed">>)}

\* await response.text(): the body as text.
TextOutcomes == {Fulfilled(500, <<"oops">>)}

\* await response.json(): value is data.answer, or the body does not parse.
JsonOutcomes == {Fulfilled(200, <<"H", "i">>), Rejected(<<"JSON Parse error">>)}

Outcomes(pc) ==
  CASE pc = "fetch" -> FetchOutcomes
    [] pc = "text" -> TextOutcomes
    [] pc = "json" -> JsonOutcomes
    [] OTHER -> {}

\* response.ok
Ok(status) == status \in 200..299

\* ---------------------------------------------------------------- state
VARIABLES
  messages,    \* useState<Message[]>([]), newest first
  inputText,   \* useState('')
  isLoading,   \* useState(false)
  rendered,    \* messages, inputText and isLoading as the last render captured them
  calls,       \* the invocations of handleSendMessage that got past the input check
  now,         \* the last value Date.now() returned
  pressed      \* the step just taken was an invocation of handleSendMessage

vars == <<messages, inputText, isLoading, rendered, calls, now, pressed>>

Snapshot == [messages |-> messages, inputText |-> inputText, isLoading |-> isLoading]

\* Date.now() never runs backwards; the session lasts MaxTime milliseconds.
Clock == now..MaxTime

Init ==
  /\ messages = <<>>
  /\ inputText = <<>>
  /\ isLoading = FALSE
  /\ rendered = Snapshot
  /\ calls = <<>>
  /\ now = 0
  /\ pressed = FALSE

\* The component function runs again and captures the current state.
Render ==
  /\ rendered # Snapshot
  /\ rendered' = Snapshot
  /\ pressed' = FALSE
  /\ UNCHANGED <<messages, inputText, isLoading, calls, now>>

\* onChangeText={setInputText}
ChangeText(text) ==
  /\ inputText' = text
  /\ pressed' = FALSE
  /\ UNCHANGED <<messages, isLoading, rendered, calls, now>>

\* handleSendMessage up to its first await, with Date.now() returning t.  A
\* call records the request body (question, history), the await it stands at
\* (pc), response.status, and logBefore: the log in state when it was invoked,
\* kept for stating the properties only.  The
\* button that invokes it is disabled by the rendered isLoading; the handler
\* itself reads the rendered inputText and messages, and does not read isLoading.
HandleSendMessage(t) ==
  /\ ~rendered.isLoading
  /\ pressed' = TRUE
  /\ LET trimmedText == Trim(rendered.inputText)
         userMessage == UserMessage(t, trimmedText)
         currentMessages == rendered.messages
         conversationHistory == Reverse(currentMessages)
     IN IF trimmedText = <<>>
        THEN /\ t = now
             /\ UNCHANGED <<messages, inputText, isLoading, rendered, calls, now>>
        ELSE /\ Len(calls) < MaxTurns
             /\ now' = t
             /\ messages' = Prepend(userMessage, messages)
             /\ inputText' = <<>>
             /\ isLoading' = TRUE
             /\ calls' = Append(calls,
                  [question |-> trimmedText,
                   history |-> conversationHistory,
                   pc |-> "fetch",
                   status |-> 0,
                   logBefore |-> messages])
             /\ UNCHANGED rendered

\* finally { setIsLoading(false) }
Finally(loading) == FALSE

\* The handler's last synchronous stretch: one bot message, then finally.
Complete(i, botMessage) ==
  /\ messages' = Prepend(botMessage, messages)
  /\ isLoading' = Finally(isLoading)
  /\ calls' = [calls EXCEPT ![i].pc = "done"]
  /\ UNCHANGED <<inputText, rendered>>

\* The promise call i awaits settles with outcome p and the handler runs on to
\* its next await or to its end; Date.now(), where it is read, returns t.
Respond(i, p, t) ==
  /\ p \in Outcomes(calls[i].pc)
  /\ pressed' = FALSE
  /\ LET c == calls[i]
     IN IF p.state = "rejected"
        THEN /\ now' = t
             /\ Complete(i, ErrorResponse(t, p.value))
        ELSE CASE c.pc = "fetch" ->
                    /\ t = now
                    /\ calls' = [calls EXCEPT ![i].pc = IF Ok(p.status) THEN "json" ELSE "text",
                                              ![i].status = p.status]
                    /\ UNCHANGED <<messages, inputText, isLoading, rendered, now>>
               [] c.pc = "text" ->
                    /\ now' = t
                    /\ Complete(i, ErrorResponse(t, ServerErrorMessage(c.status, p.value)))
               [] c.pc = "json" ->
                    /\ now' = t
                    /\ Complete(i, BotResponse(t, p.value))

Next ==
  \/ Render
  \/ \E text \in Inputs : ChangeText(text)
  \/ \E t \in Clock : HandleSendMessage(t)
  \/ \E i \in DOMAIN calls : \E p \in Outcomes(calls[i].pc) : \E t \in Clock : Respond(i, p, t)

Spec == Init /\ [][Next]_vars

\* React runs the render it has scheduled.  Nothing in the program makes the
\* network settle a promise, so no fairness is stated for Respond.
FairSpec == Spec /\ WF_vars(Render)

\* ------------------------------------------------------ the claims' terms
\* Whitespace-only or empty, stated without Trim.
IsBlank(s) == \A k \in 1..Len(s) : s[k] \in Whitespace

\* t is s without its leading and trailing whitespace, stated without Trim.
IsTrimOf(t, s) ==
  \E i, j \in 0..Len(s) :
    /\ i + j <= Len(s)
    /\ \A k \in 1..i : s[k] \in Whitespace
    /\ \A k \in (Len(s) - j + 1)..Len(s) : s[k] \in Whitespace
    /\ t = SubSeq(s, i + 1, Len(s) - j)
    /\ t # <<>> => (t[1] \notin Whitespace /\ t[Len(t)] \notin Whitespace)

\* The calls whose request has been issued and whose bot message is not yet in the log.
InFlight == {i \in DOMAIN calls : calls[i].pc # "done"}

CountOf(sender) == Cardinality({k \in DOMAIN messages : messages[k].sender = sender})

\* Call i takes its last step: its bot message is prepended.
Resolves(i) == calls[i].pc # "done" /\ calls'[i].pc = "done"

\* The step is an invocation of handleSendMessage that got past the input check.
Accepted == pressed' /\ Len(calls') = Len(calls) + 1

\* C1: while an exchange is in flight (isLoading true), an invocation of
\* handleSendMessage changes neither messages nor isLoading and issues no request.
C1_SubmitWhileWaitingIsNoOp ==
  [][(pressed' /\ isLoading) => UNCHANGED <<messages, isLoading, calls>>]_vars

\* C2: at most one backend request is outstanding in every reachable state (so
\* request N has completed before request N+1 is issued).
C2_AtMostOneOutstanding == Cardinality(InFlight) <= 1

\* C3: isLoading is true exactly when an exchange is in flight.
C3_LoadingIffInFlight == isLoading <=> InFlight # {}

\* C4: no state has isLoading false with a submitted message's bot reply still
\* missing, and none has every reply in the log with isLoading still true.
C4_NoHalfCompletedState ==
  /\ ~isLoading => CountOf("bot") = CountOf("user")
  /\ isLoading => CountOf("bot") < CountOf("user")

\* C5: when an exchange started from log M with utterance u resolves, the log
\* is exactly <<one bot message, the user message with text u>> followed by M,
\* and isLoading is false.
C5_ExchangeAddsExactlyTwo ==
  [][\A i \in DOMAIN calls :
       Resolves(i) =>
         /\ ~isLoading'
         /\ Len(messages') = Len(calls[i].logBefore) + 2
         /\ messages'[1].sender = "bot"
         /\ messages'[2].sender = "user"
         /\ messages'[2].text = calls[i].question
         /\ SubSeq(messages', 3, Len(messages')) = calls[i].logBefore]_vars

\* C6: every accepted submission is eventually followed by isLoading false,
\* whatever the backend does, a transport call that never settles included.
C6_AlwaysReturnsToReady == isLoading ~> ~isLoading

\* C7: the history of an accepted submission's request is the log as it was
\* immediately before the submission, oldest first.
C7_HistoryIsLogBeforeSubmission ==
  [][Accepted => calls'[Len(calls')].history = Reverse(messages)]_vars

\* C8: an invocation with input whose trimmed value is non-empty prepends, in
\* the same step and before any response, exactly one user message with the
\* trimmed text, clears inputText, sets isLoading and keeps the earlier messages.
C8_SubmitPrependsUserMessage ==
  [][(pressed' /\ ~IsBlank(rendered.inputText)) =>
       /\ Len(messages') = Len(messages) + 1
       /\ messages'[1].sender = "user"
       /\ IsTrimOf(messages'[1].text, rendered.inputText)
       /\ Tail(messages') = messages
       /\ inputText' = <<>>
       /\ isLoading'
       /\ Len(calls') = Len(calls) + 1
       /\ calls'[Len(calls')].pc = "fetch"
       /\ calls'[Len(calls')].question = messages'[1].text]_vars

\* C8 witness: a second-turn submission of padded text has just been accepted
\* on top of a completed exchange.
C8_Witness ==
  /\ pressed
  /\ ~IsBlank(rendered.inputText)
  /\ rendered.inputText # Trim(rendered.inputText)
  /\ Len(messages) = 3
  /\ messages[1].sender = "user"
  /\ messages[2].sender = "bot"
  /\ isLoading

\* C9: an invocation with empty or whitespace-only input changes neither
\* messages, isLoading nor inputText, and issues no request.
C9_BlankSubmitIgnored ==
  [][(pressed' /\ IsBlank(rendered.inputText)) =>
       UNCHANGED <<messages, isLoading, inputText, calls>>]_vars

\* C9 witness: the handler has just run on whitespace-only input, which is
\* still in the field, after an earlier exchange.
C9_Witness ==
  /\ pressed
  /\ rendered.inputText = <<" ">>
  /\ inputText = <<" ">>
  /\ Len(messages) = 2
  /\ ~isLoading

\* C10: no two messages in the log share an id.
C10_UniqueIds ==
  \A i, j \in DOMAIN messages : i # j => messages[i].id # messages[j].id

====
